---- MODULE Spec2Model ----
(***************************************************************************)
(* TextureGridDisplay (src/src/texture_grid_display.cpp): the octree to    *)
(* point cloud conversion of incomingMessageCallback, the hand-over of the *)
(* per-level point vectors to the render thread in update(), the          *)
(* clear()/reset() operations, and the subscription handling of onEnable,  *)
(* onDisable, updateTopic and updateQueueSize.                             *)
(*                                                                         *)
(* Two threads act on the display.  The producer thread (the threaded node *)
(* handle of the subscription) runs incomingMessageCallback, one message   *)
(* at a time.  The render thread runs update(), reset(), clear() and the   *)
(* property edits.  A section the code runs under mutex_ is one atomic     *)
(* action; code outside the lock is cut into a step per shared access.     *)
(*                                                                         *)
(* Numbers: positions are in half resolution units times the tree's        *)
(* resolution (so that voxel centres are integers), colours and            *)
(* probabilities are in 1/1000.                                            *)
(***************************************************************************)
EXTENDS Integers, Sequences, FiniteSets

\* ------------------------------------------------------------ constants

\* static const std::size_t max_octree_depth_ = sizeof(unsigned short) * 8
max_octree_depth_ == 16

\* enum OctreeVoxelRenderMode
OCTOMAP_FREE_VOXELS == 1
OCTOMAP_OCCUPIED_VOXELS == 2

\* enum OctreeVoxelColorMode
OCTOMAP_TEXTURE_COLOR == 0
OCTOMAP_Z_AXIS_COLOR == 1
OCTOMAP_PROBABLILTY_COLOR == 2

\* octomap->getTreeDepth(): the depth of every octomap tree (16 bit keys)
tree_depth == 16

\* the key of the tree's centre (octomap's tree_max_val, 2^15); keys are
\* unsigned 16 bit values
tree_max_val == 32768

\* the occupancy threshold of isNodeOccupied (probability 0.5), in 1/1000
occ_prob_thres == 500

\* color_factor_(0.8), in 1/10
color_factor_ == 8

\* the indices of box_size_, cloud_, point_buf_ and new_points_
Levels == 0 .. (max_octree_depth_ - 1)

RenderModes == {OCTOMAP_OCCUPIED_VOXELS, OCTOMAP_FREE_VOXELS,
                OCTOMAP_FREE_VOXELS + OCTOMAP_OCCUPIED_VOXELS}

ColorModes == {OCTOMAP_TEXTURE_COLOR, OCTOMAP_Z_AXIS_COLOR, OCTOMAP_PROBABLILTY_COLOR}

\* --------------------------------------------------------------- bounds

\* messages delivered to the display in one behaviour
MaxMessages == 2

\* ------------------------------------------------- arithmetic helpers

\* 2^n for n in 0 .. 16
Pow2Table == <<1, 2, 4, 8, 16, 32, 64, 128, 256, 512, 1024, 2048, 4096, 8192, 16384,
               32768, 65536>>

Pow2(n) == Pow2Table[n + 1]

Min(a, b) == IF a < b THEN a ELSE b

Max(a, b) == IF a > b THEN a ELSE b

\* a & b for the two bit values of the render mode mask
BitAnd(a, b) ==
    (IF (a % 2 = 1) /\ (b % 2 = 1) THEN 1 ELSE 0)
    + (IF ((a \div 2) % 2 = 1) /\ ((b \div 2) % 2 = 1) THEN 2 ELSE 0)

RECURSIVE SumSeq(_)
SumSeq(s) == IF s = <<>> THEN 0 ELSE Head(s) + SumSeq(Tail(s))

\* ---------------------------------------------------------- the octree
\* A decoded tree is [res, nodes]: its resolution and the set of its nodes,
\* inner nodes included.  A node is [d, k, p, fv, fo]: depth, key of the
\* node's centre (as the tree iterator reports it), occupancy probability,
\* and the six faces' values and observation counts.

\* the edge of a depth d node in key units
CellKeys(d) == Pow2(tree_depth - d)

\* the centre key, on one axis, of the depth d cell that holds key k
KeyAt(k, d) == (k \div CellKeys(d)) * CellKeys(d) + (CellKeys(d) \div 2)

NodeKeyAt(key, d) == [a \in 1..3 |-> KeyAt(key[a], d)]

\* the nodes of t at depth d whose cell holds key (none or one)
NodesAt(t, key, d) ==
    LET k == NodeKeyAt(key, d) IN {n \in t.nodes : n.d = d /\ n.k = k}

nodeHasChildren(t, n) ==
    \E c \in t.nodes : c.d = n.d + 1 /\ NodeKeyAt(c.k, n.d) = n.k

\* octomap->search(key): descend from the root towards key; a node without
\* any child ends the descent and is the result (a pruned leaf stands for
\* all the cells it covers), a missing child of a node that has children is
\* a miss.  The result is a set: empty for NULL.
RECURSIVE searchFrom(_, _, _)
searchFrom(t, key, n) ==
    IF n.d = tree_depth THEN {n}
    ELSE IF NodesAt(t, key, n.d + 1) # {}
         THEN searchFrom(t, key, CHOOSE c \in NodesAt(t, key, n.d + 1) : TRUE)
         ELSE IF nodeHasChildren(t, n) THEN {} ELSE {n}

search(t, key) ==
    IF NodesAt(t, key, 0) = {} THEN {}
    ELSE searchFrom(t, key, CHOOSE r \in NodesAt(t, key, 0) : TRUE)

\* octomap->isNodeOccupied(node)
isNodeOccupied(n) == n.p >= occ_prob_thres

\* octomap->getNodeSize(depth), in resolution units times t.res
getNodeSize(t, depth) == t.res * Pow2(tree_depth - depth)

\* the key of child pos of a node with parent key pk, the child at depth cd
\* (octomap's computeChildKey with center_offset_key = tree_max_val >> cd)
ChildKeyAxis(pk, bit, cd) ==
    LET off == tree_max_val \div Pow2(cd)
    IN  IF bit = 1 THEN pk + off
        ELSE pk - off - (IF off = 0 THEN 1 ELSE 0)

ChildKey(pk, pos, cd) ==
    << ChildKeyAxis(pk[1], pos % 2, cd),
       ChildKeyAxis(pk[2], (pos \div 2) % 2, cd),
       ChildKeyAxis(pk[3], (pos \div 4) % 2, cd) >>

\* octomap->begin(maxDepth) .. end(): the nodes the leaf iterator visits,
\* in its order (depth first, children 0..7): a node is visited when it has
\* no children or lies at maxDepth.
RECURSIVE LeafSeq(_, _, _)
RECURSIVE ChildrenFrom(_, _, _, _)
LeafSeq(t, n, maxDepth) ==
    IF n.d >= maxDepth \/ ~nodeHasChildren(t, n) THEN <<n>>
    ELSE ChildrenFrom(t, n, maxDepth, 0)

ChildrenFrom(t, n, maxDepth, pos) ==
    IF pos > 7 THEN <<>>
    ELSE LET cs == {c \in t.nodes : c.d = n.d + 1 /\ c.k = ChildKey(n.k, pos, n.d + 1)}
         IN  (IF cs = {} THEN <<>> ELSE LeafSeq(t, CHOOSE c \in cs : TRUE, maxDepth))
             \o ChildrenFrom(t, n, maxDepth, pos + 1)

\* the iterator's constructor takes maxDepth 0 for the full depth
IteratorNodes(t, maxDepth) ==
    LET roots == {n \in t.nodes : n.d = 0}
    IN  IF roots = {} THEN <<>>
        ELSE LeafSeq(t, CHOOSE r \in roots : TRUE,
                     IF maxDepth = 0 THEN tree_depth ELSE maxDepth)

\* --------------------------------------------------- the decoded maps
\* The maps a message can decode to.  MkTree adds the inner nodes above the
\* given leaves; an inner node holds the largest occupancy of the leaves
\* below it and no face observations.

NoFaces == <<0, 0, 0, 0, 0, 0>>

Leaf(d, x, y, z, p, fv, fo) ==
    [d |-> d, k |-> NodeKeyAt(<<x, y, z>>, d), p |-> p, fv |-> fv, fo |-> fo]

MaxP(ps) == CHOOSE p \in ps : \A q \in ps : q <= p

Inner(leaves, l, e) ==
    [d |-> e, k |-> NodeKeyAt(l.k, e),
     p |-> MaxP({m.p : m \in {m \in leaves : NodeKeyAt(m.k, e) = NodeKeyAt(l.k, e)}}),
     fv |-> NoFaces, fo |-> NoFaces]

MkTree(res, leaves) ==
    [res |-> res,
     nodes |-> leaves \cup UNION {{Inner(leaves, l, e) : e \in 0 .. (l.d - 1)} : l \in leaves}]

\* one occupied voxel at the finest depth, with observed faces
OneLeaf16 ==
    MkTree(1, {Leaf(16, 32768, 32768, 32768, 970,
                    <<255, 0, 0, 0, 0, 0>>, <<2, 1, 0, 0, 0, 0>>)})

\* one pruned occupied leaf at depth 15, in a tree of twice the resolution
OneLeaf15 == MkTree(2, {Leaf(15, 32770, 32770, 32770, 880, NoFaces, NoFaces)})

\* one pruned occupied leaf at depth 10
OneLeaf10 == MkTree(1, {Leaf(10, 40000, 40000, 40000, 1000, NoFaces, NoFaces)})

\* the whole volume occupied and pruned into the root
RootOnly == MkTree(1, {Leaf(0, 32768, 32768, 32768, 970, NoFaces, NoFaces)})

\* the tree of a message that holds no node (root == NULL)
EmptyTree == [res |-> 2, nodes |-> {}]

\* an occupied and a free voxel side by side at the finest depth, and an
\* occupied leaf at depth 15
TwoLevels ==
    MkTree(1, {Leaf(16, 32768, 32768, 32768, 970, NoFaces, <<0, 0, 1, 0, 0, 0>>),
               Leaf(16, 32769, 32768, 32768, 120, NoFaces, NoFaces),
               Leaf(15, 100, 200, 32780, 700, NoFaces, NoFaces)})

\* the eight depth 15 cells of the depth 14 cell [4, 7]^3, by a key of each
Cells15 == {<<x, y, z>> : x \in {4, 6}, y \in {4, 6}, z \in {4, 6}}

\* The depth 14 cell [4, 7]^3 all occupied: the depth 15 cell [4, 5]^3 as
\* eight voxels of depth 16, the voxel at (5, 5, 5) with a probability of
\* its own, and the seven other depth 15 cells as pruned leaves.  Every
\* key next to (5, 5, 5) lies in an occupied node.  Beside the block, one
\* occupied voxel at the edge of the key range (key 0 on the first axis).
Enclosed16 ==
    MkTree(1, {Leaf(16, 5, 5, 5, 970, NoFaces, NoFaces)}
              \cup {Leaf(16, k[1], k[2], k[3], 900, NoFaces, NoFaces) :
                        k \in ({4, 5} \X {4, 5} \X {4, 5}) \ {<<5, 5, 5>>}}
              \cup {Leaf(15, k[1], k[2], k[3], 900, NoFaces, NoFaces) :
                        k \in Cells15 \ {<<4, 4, 4>>}}
              \cup {Leaf(16, 0, 4, 4, 800, NoFaces, NoFaces)})

\* The depth 13 cell [0, 7]^3 all occupied: the depth 14 cell [4, 7]^3 as
\* eight leaves of depth 15, the one at [4, 5]^3 with a probability of its
\* own, and the seven other depth 14 cells as pruned leaves.  Each of the
\* 26 depth 15 cells around [4, 5]^3 lies in an occupied node.
Enclosed15 ==
    MkTree(1, {Leaf(15, 4, 4, 4, 970, NoFaces, NoFaces)}
              \cup {Leaf(15, k[1], k[2], k[3], 900, NoFaces, NoFaces) :
                        k \in Cells15 \ {<<4, 4, 4>>}}
              \cup {Leaf(14, k[1], k[2], k[3], 900, NoFaces, NoFaces) :
                        k \in ({0, 4} \X {0, 4} \X {0, 4}) \ {<<4, 4, 4>>}})

Maps ==
    <<OneLeaf16, OneLeaf15, OneLeaf10, RootOnly, EmptyTree, TwoLevels, Enclosed16,
      Enclosed15>>

MapIds == 1 .. Len(Maps)

\* ------------------------------------------------ the pass over a tree

\* it.getX(), it.getY(), it.getZ(): the centre of a depth d node with key
\* k on one axis (octomap's keyToCoord), doubled
Coord2(t, k, d) ==
    IF d = 0 THEN 0
    ELSE (2 * ((k - tree_max_val) \div CellKeys(d)) + 1) * getNodeSize(t, d)

\* the leaves of the whole tree: what getMetricMin and getMetricMax run over
TreeLeaves(t) == {n \in t.nodes : ~nodeHasChildren(t, n)}

\* octomap->getMetricMin(..., minZ) and getMetricMax(..., maxZ), doubled;
\* both are 0 for a tree without nodes
getMetricMinZ(t) ==
    IF t.nodes = {} THEN 0
    ELSE LET zs == {Coord2(t, n.k[3], n.d) - getNodeSize(t, n.d) : n \in TreeLeaves(t)}
         IN  CHOOSE z \in zs : \A y \in zs : z <= y

getMetricMaxZ(t) ==
    IF t.nodes = {} THEN 0
    ELSE LET zs == {Coord2(t, n.k[3], n.d) + getNodeSize(t, n.d) : n \in TreeLeaves(t)}
         IN  CHOOSE z \in zs : \A y \in zs : z >= y

\* setColor(z_pos, min_z, max_z, color_factor, point): the colour, in
\* 1/1000, the six sector hue decomposition gives to z_pos
setColor(z_pos, min_z, max_z) ==
    LET ratio == Min(Max(((z_pos - min_z) * 1000) \div (max_z - min_z), 0), 1000)
        h0 == ((1000 - ratio) * color_factor_) \div 10
        h == (h0 % 1000) * 6
        i == h \div 1000
        f0 == h - i * 1000
        f == IF i % 2 = 0 THEN 1000 - f0 ELSE f0
        v == 1000
        m == 0
        n == 1000 - f
    IN  CASE i \in {0, 6} -> <<v, n, m>>
          [] i = 1 -> <<n, v, m>>
          [] i = 2 -> <<m, v, n>>
          [] i = 3 -> <<m, n, v>>
          [] i = 4 -> <<n, m, v>>
          [] i = 5 -> <<v, m, n>>
          [] OTHER -> <<1000, 500, 500>>

\* setIntensity(intensity, point): the grey value, clamped to [0, 1]
setIntensity(intensity) ==
    LET i == Max(0, Min(1000, intensity)) IN <<i, i, i>>

\* what a float that is read before it is written can hold (cell_texture is
\* declared without a value and then added to), times 255 * 1000
GarbageFloats == {-100000, 0, 100000}

\* case OCTOMAP_TEXTURE_COLOR: the faces' values weighted by their
\* observations, added to the uninitialised cell_texture (garbage)
TextureIntensity(n, garbage) ==
    LET cell_texture == garbage + SumSeq([f \in 1..6 |-> n.fv[f] * n.fo[f]])
        obs == SumSeq(n.fo)
    IN  IF obs < 1 THEN 0 ELSE (cell_texture * 1000) \div (obs * 255)

\* the colour of the point of node n
PointColor(t, n, octree_color_mode, garbage) ==
    CASE octree_color_mode = OCTOMAP_TEXTURE_COLOR ->
             setIntensity(TextureIntensity(n, garbage))
      [] octree_color_mode = OCTOMAP_Z_AXIS_COLOR ->
             setColor(Coord2(t, n.k[3], n.d), getMetricMinZ(t), getMetricMaxZ(t))
      [] octree_color_mode = OCTOMAP_PROBABLILTY_COLOR ->
             <<1000 - n.p, n.p, 0>>

\* PointCloud::Point newPoint
NewPoint(t, n, octree_color_mode, garbage) ==
    LET c == PointColor(t, n, octree_color_mode, garbage)
    IN  [x |-> Coord2(t, n.k[1], n.d), y |-> Coord2(t, n.k[2], n.d),
         z |-> Coord2(t, n.k[3], n.d), r |-> c[1], g |-> c[2], b |-> c[3]]

\* AxisRange, but "key[a] < nKey[a] + 1"
AxisRangeOneSided(n) == IF n = 0 THEN {} ELSE {n - 1, n}

\* the values key[a] takes in "for (key[a] = nKey[a] - 1; ... key[a] <=
\* nKey[a] + 1; ++key[a])": key[a] is an unsigned short, so for nKey[a] = 0
\* it starts at 65535 and the loop body never runs.  (nKey[a] = 65535 makes
\* the condition always true; no map of the catalogue holds such a key.)
AxisRange(n) == IF n = 0 THEN {} ELSE {n - 1, n, n + 1}

\* the keys the three loops search
NeighborKeys(nKey) ==
    {key \in AxisRange(nKey[1]) \X AxisRange(nKey[2]) \X AxisRange(nKey[3]) : key # nKey}

\* node && ((int)isNodeOccupied(node) + 1) & render_mode_mask
NeighborMatches(t, key, render_mode_mask) ==
    \E node \in search(t, key) :
        BitAnd((IF isNodeOccupied(node) THEN 1 ELSE 0) + 1, render_mode_mask) # 0

allNeighborsFound(t, n, render_mode_mask) ==
    \A key \in NeighborKeys(n.k) : NeighborMatches(t, key, render_mode_mask)

\* display_voxel, but without the test of the neighbours
display_voxel_all(t, n, render_mode_mask) ==
    /\ isNodeOccupied(n)
    /\ BitAnd((IF isNodeOccupied(n) THEN 1 ELSE 0) + 1, render_mode_mask) # 0

\* display_voxel, but without the outer "if (octomap->isNodeOccupied(*it))"
display_voxel_free_too(t, n, render_mode_mask) ==
    /\ BitAnd((IF isNodeOccupied(n) THEN 1 ELSE 0) + 1, render_mode_mask) # 0
    /\ ~allNeighborsFound(t, n, render_mode_mask)

\* display_voxel of a node the iterator visits
display_voxel(t, n, render_mode_mask) ==
    /\ isNodeOccupied(n)
    /\ BitAnd((IF isNodeOccupied(n) THEN 1 ELSE 0) + 1, render_mode_mask) # 0
    /\ ~allNeighborsFound(t, n, render_mode_mask)

\* unsigned int treeDepth = std::min<unsigned int>(property, getTreeDepth())
TraversalDepth(depth_property) == Min(depth_property, tree_depth)

\* the voxels a pass emits, in the order it emits them
Emitted(t, depth_property, render_mode_mask) ==
    SelectSeq(IteratorNodes(t, TraversalDepth(depth_property)),
              LAMBDA n : display_voxel(t, n, render_mode_mask))

\* BucketIndex, but point_buf_[depth]
BucketIndexOffByOne(depth) == depth

\* the index of point_buf_[depth - 1]; depth is an unsigned int, so depth 0
\* gives 2^32 - 1: any value outside Levels stands for it
BucketIndex(depth) == depth - 1

\* point_buf_[depth - 1].push_back(newPoint) for the emitted voxels ns;
\* a push outside the vector is not modelled as a write to any bucket
RECURSIVE PushBack(_, _, _, _, _)
PushBack(buf, t, ns, octree_color_mode, garbage) ==
    IF ns = <<>> THEN buf
    ELSE LET n == Head(ns)
             i == BucketIndex(n.d)
             next == IF i \in Levels
                     THEN [buf EXCEPT ![i] = Append(@, NewPoint(t, n, octree_color_mode, garbage))]
                     ELSE buf
         IN  PushBack(next, t, Tail(ns), octree_color_mode, garbage)

EmptyBuckets == [i \in Levels |-> <<>>]

\* ------------------------------------------------------------ inputs
\* A message is [frame_ok, pose, map]: whether its frame can be transformed
\* to the fixed frame, the pose the transform gives, and the map its
\* payload decodes to (0: msgToMap fails or gives no TextureOcTree).
Messages == [frame_ok : BOOLEAN, pose : {1}, map : {0} \cup MapIds]

\* the messages of the concurrent specifications: the maps that differ in
\* the levels they fill, in their resolution and in whether they emit
SomeMessages == {msg \in Messages : msg.map <= 6}

\* The properties belong to the property panel; a pass reads their current
\* values, which the user may have set to anything in between.  A setting
\* is [depth, render, color]: tree_depth_property_->getInt() (0 and up;
\* setMax keeps it at or below the tree depth once a tree was decoded),
\* octree_render_property_->getOptionInt() and
\* octree_coloring_property_->getOptionInt().
AllSettings == [depth : 0 .. (tree_depth + 1), render : RenderModes, color : ColorModes]

\* the settings the passes of the concurrent specification run under
SomeSettings ==
    [depth : {max_octree_depth_}, render : RenderModes,
     color : {OCTOMAP_PROBABLILTY_COLOR}]

\* the voxels each map emits under each depth and render mode, computed once
EmittedOf ==
    [i \in MapIds, d \in 0 .. (tree_depth + 1), m \in RenderModes |-> Emitted(Maps[i], d, m)]

\* ------------------------------------------------------------ the state

VARIABLES
    new_points_received_,   \* the dirty flag
    messages_received_,
    box_size_,              \* [Levels -> edge length]
    cloud_,                 \* [Levels -> [points, size]]: the rviz::PointCloud objects
    point_buf_,             \* [Levels -> sequence of points]
    new_points_,            \* [Levels -> sequence of points]
    scene_node_,            \* [pose]
    status_,                \* the "Message" status entry
    callback_pc,            \* where incomingMessageCallback stands
    callback_i,             \* the i of its loop over the levels
    octomap,                \* the decoded tree (an index of Maps), 0 for none
    pointCount,
    update_pc,              \* where update() stands
    delivered,              \* history: the number of messages delivered
    pass,                   \* history: the voxels and points of the pass in progress
    published,              \* history: the points and sizes of each publishing pass
    drained,                \* history: for each drain, the number of passes published before it
    enabled,                \* isEnabled()
    topic,                  \* octomap_topic_property_->getStdString()
    queue_size_,
    sub_,                   \* the subscriber sub_ points to, NoSub for a null pointer
    subscribers             \* history: the number of Subscriber objects alive

vars == << new_points_received_, messages_received_, box_size_, cloud_, point_buf_,
           new_points_, scene_node_, status_, callback_pc, callback_i, octomap,
           pointCount, update_pc, delivered, pass, published, drained, enabled, topic,
           queue_size_, sub_, subscribers >>

\* what the subscription handling works on
life == << enabled, topic, queue_size_, sub_, subscribers >>

\* the setting of a pass that has not read the properties yet
NoSetting == [depth |-> 0, render |-> 0, color |-> 0]

\* no pass is in progress.  The history of a pass: the voxels it emitted,
\* their points, the setting it read, whether an error was reported before
\* it and whether onDisable() ran during it.
NoPass ==
    [voxels |-> <<>>, points |-> EmptyBuckets, after_error |-> FALSE,
     setting |-> NoSetting, disabled |-> FALSE]

\* sub_ == NULL
NoSub == [topic |-> "", queue_size |-> 0]

\* new message_filters::Subscriber, subscribed to topicStr with queue_size_
Subscriber(topicStr, queue_size) == [topic |-> topicStr, queue_size |-> queue_size]

\* the values of the topic property, and of the queue size property
\* (queue_size_(5), setMin(1))
Topics == {"", "octomap"}

QueueSizes == {1, 5}

\* the state after the constructor and onInitialize()
\* The display as rviz has created and loaded it: the constructor and
\* onInitialize() have run, Enabled and the topic come from the saved
\* configuration, and onEnable() has subscribed an enabled display that
\* has a topic.
Init ==
    /\ new_points_received_ = FALSE
    /\ messages_received_ = 0
    /\ box_size_ = [i \in Levels |-> 0]
    /\ cloud_ = [i \in Levels |-> [points |-> <<>>, size |-> 0]]
    /\ point_buf_ = EmptyBuckets
    /\ new_points_ = EmptyBuckets
    /\ enabled \in BOOLEAN
    /\ topic \in Topics
    /\ queue_size_ = 5
    /\ sub_ = IF enabled /\ topic # "" THEN Subscriber(topic, queue_size_) ELSE NoSub
    /\ subscribers = IF sub_ # NoSub THEN 1 ELSE 0
    /\ scene_node_ = [pose |-> 0, visible |-> enabled]
    /\ status_ = "Ok"
    /\ callback_pc = "idle"
    /\ callback_i = 0
    /\ octomap = 0
    /\ pointCount = 0
    /\ update_pc = "idle"
    /\ delivered = 0
    /\ pass = NoPass
    /\ published = <<>>
    /\ drained = <<>>

\* --------------------------------------- incomingMessageCallback(msg)

\* "if (!getTransform(...)) { setStatusStd(Error, ...); return; }"
TransformFailed(msg) ==
    /\ ~msg.frame_ok
    /\ status_' = "Error: transform"
    /\ UNCHANGED << pass, scene_node_, octomap, callback_pc, point_buf_, box_size_,
                    new_points_, new_points_received_, cloud_ >>

\* DecodeFailed, but the pending points are dropped with the message
DecodeFailedDiscarding(msg) ==
    /\ msg.frame_ok
    /\ msg.map = 0
    /\ scene_node_' = [scene_node_ EXCEPT !.pose = msg.pose]
    /\ status_' = "Error: octree"
    /\ new_points_' = EmptyBuckets
    /\ new_points_received_' = FALSE
    /\ UNCHANGED << pass, octomap, callback_pc, point_buf_, box_size_, cloud_ >>

\* "if (!octomap) { setStatusStd(Error, ...); return; }", after the pose of
\* the scene node was set
DecodeFailed(msg) ==
    /\ msg.frame_ok
    /\ msg.map = 0
    /\ scene_node_' = [scene_node_ EXCEPT !.pose = msg.pose]
    /\ status_' = "Error: octree"
    /\ UNCHANGED << pass, octomap, callback_pc, point_buf_, box_size_, new_points_,
                    new_points_received_, cloud_ >>

\* Decoded, but only while no error was reported
DecodedUnlessError(msg) ==
    /\ status_ = "Ok"
    /\ msg.frame_ok
    /\ msg.map # 0
    /\ scene_node_' = [scene_node_ EXCEPT !.pose = msg.pose]
    /\ octomap' = msg.map
    /\ callback_pc' = "reset"
    /\ pass' = [NoPass EXCEPT !.after_error = (status_ # "Ok")]
    /\ UNCHANGED << status_, point_buf_, box_size_, new_points_, new_points_received_,
                    cloud_ >>

\* the tree was decoded: the pass goes on
Decoded(msg) ==
    /\ msg.frame_ok
    /\ msg.map # 0
    /\ scene_node_' = [scene_node_ EXCEPT !.pose = msg.pose]
    /\ octomap' = msg.map
    /\ callback_pc' = "reset"
    /\ pass' = [NoPass EXCEPT !.after_error = (status_ # "Ok")]
    /\ UNCHANGED << status_, point_buf_, box_size_, new_points_, new_points_received_,
                    cloud_ >>

\* from the entry to the decoded tree: the count, the transform, the pose
\* of the scene node, msgToMap and the cast
incomingMessageCallback(msg) ==
    /\ callback_pc = "idle"
    /\ messages_received_' = messages_received_ + 1
    /\ delivered' = delivered + 1
    /\ \/ TransformFailed(msg)
       \/ DecodeFailed(msg)
       \/ Decoded(msg)
    /\ callback_i' = 0
    /\ UNCHANGED << pointCount, update_pc, published, drained >>
    /\ UNCHANGED life

\* point_buf_[i].clear()
Cleared(points) == <<>>

\* one turn of "for (i = 0; i < max_octree_depth_; ++i)": outside the lock
ResetLevel ==
    /\ callback_pc = "reset"
    /\ point_buf_' = [point_buf_ EXCEPT ![callback_i] = Cleared(@)]
    /\ box_size_' = [box_size_ EXCEPT ![callback_i] = getNodeSize(Maps[octomap], callback_i + 1)]
    /\ callback_i' = callback_i + 1
    /\ callback_pc' = IF callback_i + 1 < max_octree_depth_ THEN "reset" ELSE "traverse"
    /\ UNCHANGED << new_points_received_, messages_received_, cloud_, new_points_,
                    scene_node_, status_, octomap, pointCount, update_pc, delivered,
                    pass, published, drained >>
    /\ UNCHANGED life

\* the traversal under setting s: the visible voxels are pushed to
\* point_buf_ and counted
Traverse(s, garbage) ==
    /\ callback_pc = "traverse"
    /\ LET ns == EmittedOf[octomap, s.depth, s.render]
       IN  /\ point_buf_' = PushBack(point_buf_, Maps[octomap], ns, s.color, garbage)
           /\ pointCount' = Len(ns)
           /\ pass' = [pass EXCEPT
                         !.voxels = ns,
                         !.setting = s,
                         !.points = PushBack(EmptyBuckets, Maps[octomap], ns, s.color, garbage)]
    /\ callback_pc' = "publish"
    /\ UNCHANGED << new_points_received_, messages_received_, box_size_, cloud_,
                    new_points_, scene_node_, status_, callback_i, octomap, update_pc,
                    delivered, published, drained >>
    /\ UNCHANGED life

\* the sizes a pass computes for its levels
PassSizes(t) == [i \in Levels |-> getNodeSize(t, i + 1)]

\* Swapped, but the new points are added to the pending ones
SwappedMerging(new_points, point_buf) ==
    [new_points |-> [i \in Levels |-> new_points[i] \o point_buf[i]],
     point_buf |-> EmptyBuckets]

\* Swapped, but the loop stops one level early
SwappedButLast(new_points, point_buf) ==
    [new_points |-> [i \in Levels |-> IF i < max_octree_depth_ - 1
                                      THEN point_buf[i] ELSE new_points[i]],
     point_buf |-> [i \in Levels |-> IF i < max_octree_depth_ - 1
                                     THEN new_points[i] ELSE point_buf[i]]]

\* "new_points_[i].swap(point_buf_[i])" for every level: the two vectors
\* after the swap
Swapped(new_points, point_buf) == [new_points |-> point_buf, point_buf |-> new_points]

\* "if (pointCount) { lock; new_points_received_ = true; swap }" and the
\* delete of the tree
Publish ==
    /\ callback_pc = "publish"
    /\ IF pointCount # 0
       THEN /\ new_points_received_' = TRUE
            /\ new_points_' = Swapped(new_points_, point_buf_).new_points
            /\ point_buf_' = Swapped(new_points_, point_buf_).point_buf
            /\ published' = Append(published, [points |-> pass.points,
                                               size |-> PassSizes(Maps[octomap]),
                                               after_error |-> pass.after_error,
                                               disabled |-> pass.disabled])
       ELSE UNCHANGED << new_points_received_, new_points_, point_buf_, published >>
    /\ octomap' = 0
    /\ pass' = NoPass
    /\ callback_pc' = "idle"
    /\ UNCHANGED << messages_received_, box_size_, cloud_, scene_node_, status_,
                    callback_i, pointCount, update_pc, delivered, drained >>
    /\ UNCHANGED life

\* ------------------------------------------------- the render thread

\* update_begin, but without the test of the flag
update_begin_unchecked ==
    /\ update_pc = "idle"
    /\ update_pc' = "lock"
    /\ UNCHANGED << new_points_received_, messages_received_, box_size_, cloud_,
                    point_buf_, new_points_, scene_node_, status_, callback_pc,
                    callback_i, octomap, pointCount, delivered, pass, published,
                    drained >>
    /\ UNCHANGED life

\* update(): "if (new_points_received_)", read outside the lock
update_begin ==
    /\ update_pc = "idle"
    /\ update_pc' = IF new_points_received_ THEN "lock" ELSE "return"
    /\ UNCHANGED << new_points_received_, messages_received_, box_size_, cloud_,
                    point_buf_, new_points_, scene_node_, status_, callback_pc,
                    callback_i, octomap, pointCount, delivered, pass, published,
                    drained >>
    /\ UNCHANGED life

\* Refill, but without cloud_[i]->clear()
RefillAppending(cloud, size, points) == [points |-> cloud.points \o points, size |-> size]

\* cloud_[i]->clear(); setDimensions(size, size, size); addPoints(...).
\* addPoints of an empty vector adds nothing (&front() of an empty vector
\* is passed with a count of 0).
Refill(cloud, size, points) == [points |-> points, size |-> size]

\* update(): the locked block
update_drain ==
    /\ update_pc = "lock"
    /\ cloud_' = [i \in Levels |-> Refill(cloud_[i], box_size_[i], new_points_[i])]
    /\ new_points_' = EmptyBuckets
    /\ new_points_received_' = FALSE
    /\ update_pc' = "idle"
    /\ drained' = Append(drained, Len(published))
    /\ UNCHANGED << messages_received_, box_size_, point_buf_, scene_node_, status_,
                    callback_pc, callback_i, octomap, pointCount, delivered, pass,
                    published >>
    /\ UNCHANGED life

\* update() returns without having entered the block
update_end ==
    /\ update_pc = "return"
    /\ update_pc' = "idle"
    /\ UNCHANGED << new_points_received_, messages_received_, box_size_, cloud_,
                    point_buf_, new_points_, scene_node_, status_, callback_pc,
                    callback_i, octomap, pointCount, delivered, pass, published,
                    drained >>
    /\ UNCHANGED life

\* clear(): every cloud is cleared, under the lock
clear(clouds) == [i \in Levels |-> [clouds[i] EXCEPT !.points = <<>>]]

\* reset()
reset ==
    /\ update_pc = "idle"
    /\ cloud_' = clear(cloud_)
    /\ messages_received_' = 0
    /\ UNCHANGED << new_points_received_, box_size_, point_buf_, new_points_,
                    scene_node_, status_, callback_pc, callback_i, octomap, pointCount,
                    update_pc, delivered, pass, published, drained >>
    /\ UNCHANGED life

\* ------------------------------------------- the subscription handling
\* onEnable(), onDisable(), updateTopic() and updateQueueSize() run on the
\* render thread, as update() and reset() do, so each of them is one step
\* between two calls of update().  subscribe() and unsubscribe() are
\* operators on what they work on, [cloud, sub, subscribers].

\* unsubscribe(): clear(), then sub_.reset()
unsubscribe(d) ==
    [cloud |-> clear(d.cloud),
     sub |-> NoSub,
     subscribers |-> d.subscribers - (IF d.sub # NoSub THEN 1 ELSE 0)]

\* subscribe, but without "if (!isEnabled()) return"
subscribe_disabled_too(d, isEnabled, topicStr, queue_size) ==
    IF topicStr # ""
    THEN [unsubscribe(d) EXCEPT !.sub = Subscriber(topicStr, queue_size),
                                !.subscribers = @ + 1]
    ELSE unsubscribe(d)

\* subscribe(): nothing for a disabled display; else unsubscribe(), and a
\* new subscriber when the topic is not empty
subscribe(d, isEnabled, topicStr, queue_size) ==
    IF ~isEnabled THEN d
    ELSE IF topicStr # ""
         THEN [unsubscribe(d) EXCEPT !.sub = Subscriber(topicStr, queue_size),
                                     !.subscribers = @ + 1]
         ELSE unsubscribe(d)

\* cloud_, sub_ and the live subscribers as one value
Subscription == [cloud |-> cloud_, sub |-> sub_, subscribers |-> subscribers]

\* what no subscription handler touches
LifeUnchanged ==
    UNCHANGED << new_points_received_, box_size_, point_buf_, new_points_, status_,
                 callback_pc, callback_i, octomap, pointCount, update_pc, delivered,
                 published, drained >>

\* the display is enabled: onEnable()
onEnable ==
    /\ update_pc = "idle"
    /\ ~enabled
    /\ enabled' = TRUE
    /\ scene_node_' = [scene_node_ EXCEPT !.visible = TRUE]
    /\ LET d == subscribe(Subscription, TRUE, topic, queue_size_)
       IN  cloud_' = d.cloud /\ sub_' = d.sub /\ subscribers' = d.subscribers
    /\ UNCHANGED << topic, queue_size_, messages_received_, pass >>
    /\ LifeUnchanged

\* the display is disabled: onDisable(); a pass in progress goes on
onDisable ==
    /\ update_pc = "idle"
    /\ enabled
    /\ enabled' = FALSE
    /\ scene_node_' = [scene_node_ EXCEPT !.visible = FALSE]
    /\ LET d == unsubscribe(Subscription)
       IN  cloud_' = clear(d.cloud) /\ sub_' = d.sub /\ subscribers' = d.subscribers
    /\ pass' = IF callback_pc = "idle" THEN pass ELSE [pass EXCEPT !.disabled = TRUE]
    /\ UNCHANGED << topic, queue_size_, messages_received_ >>
    /\ LifeUnchanged

\* the topic property was set to topicStr: updateTopic(), that is
\* unsubscribe(), reset(), subscribe()
updateTopic(topicStr) ==
    /\ update_pc = "idle"
    /\ topicStr # topic
    /\ topic' = topicStr
    /\ LET u == unsubscribe(Subscription)
           r == [u EXCEPT !.cloud = clear(u.cloud)]
           d == subscribe(r, enabled, topicStr, queue_size_)
       IN  cloud_' = d.cloud /\ sub_' = d.sub /\ subscribers' = d.subscribers
    /\ messages_received_' = 0
    /\ UNCHANGED << enabled, queue_size_, scene_node_, pass >>
    /\ LifeUnchanged

\* the queue size property was set to queue_size: updateQueueSize()
updateQueueSize(queue_size) ==
    /\ update_pc = "idle"
    /\ queue_size # queue_size_
    /\ queue_size_' = queue_size
    /\ LET d == subscribe(Subscription, enabled, topic, queue_size)
       IN  cloud_' = d.cloud /\ sub_' = d.sub /\ subscribers' = d.subscribers
    /\ UNCHANGED << enabled, topic, scene_node_, messages_received_, pass >>
    /\ LifeUnchanged

\* ------------------------------------------------- the specifications

\* Messages reach the callback through the subscription; rviz calls
\* update() on the displays that are enabled.

\* the two threads, MaxMessages messages
Next ==
    \/ \E msg \in SomeMessages :
           sub_ # NoSub /\ delivered < MaxMessages /\ incomingMessageCallback(msg)
    \/ ResetLevel
    \/ \E s \in SomeSettings, garbage \in GarbageFloats : Traverse(s, garbage)
    \/ Publish
    \/ enabled /\ update_begin
    \/ update_drain
    \/ update_end
    \/ reset

Spec == Init /\ [][Next]_vars

\* the first message, under every setting
NextPass ==
    \/ \E msg \in Messages : sub_ # NoSub /\ delivered = 0 /\ incomingMessageCallback(msg)
    \/ ResetLevel
    \/ \E s \in AllSettings, garbage \in GarbageFloats : Traverse(s, garbage)
    \/ Publish
    \/ enabled /\ update_begin
    \/ update_drain
    \/ update_end

SpecPass == Init /\ [][NextPass]_vars

\* the first message, and the display enabled and disabled, its topic and
\* its queue size set, in any order
NextLife ==
    \/ \E msg \in SomeMessages :
           sub_ # NoSub /\ delivered = 0 /\ incomingMessageCallback(msg)
    \/ ResetLevel
    \/ \E s \in SomeSettings, garbage \in GarbageFloats : Traverse(s, garbage)
    \/ Publish
    \/ enabled /\ update_begin
    \/ update_drain
    \/ update_end
    \/ reset
    \/ onEnable
    \/ onDisable
    \/ \E topicStr \in Topics : updateTopic(topicStr)
    \/ \E queue_size \in QueueSizes : updateQueueSize(queue_size)

SpecLife == Init /\ [][NextLife]_vars

\* The messages and the settings of the scenario "one occupied leaf at
\* depth 10, probability colours, occupied voxels": the depth property at
\* the leaf's depth or at its default.
ScenarioMessages == {msg \in Messages : msg.map # 0 /\ Maps[msg.map] = OneLeaf10}

ScenarioSettings ==
    [depth : {10, max_octree_depth_}, render : {OCTOMAP_OCCUPIED_VOXELS},
     color : {OCTOMAP_PROBABLILTY_COLOR}]

\* the two threads, the first message that of the scenario
NextScenario ==
    \/ \E msg \in ScenarioMessages :
           sub_ # NoSub /\ delivered = 0 /\ incomingMessageCallback(msg)
    \/ \E msg \in SomeMessages :
           sub_ # NoSub /\ delivered \in 1 .. (MaxMessages - 1) /\ incomingMessageCallback(msg)
    \/ ResetLevel
    \/ \E s \in ScenarioSettings, garbage \in GarbageFloats :
           delivered = 1 /\ Traverse(s, garbage)
    \/ \E s \in SomeSettings, garbage \in GarbageFloats :
           delivered > 1 /\ Traverse(s, garbage)
    \/ Publish
    \/ enabled /\ update_begin
    \/ update_drain
    \/ update_end
    \/ reset

SpecScenario == Init /\ [][NextScenario]_vars

\* ------------------------------------------------------------ claims

CloudPoints(clouds) == [i \in Levels |-> clouds[i].points]

CloudSizes(clouds) == [i \in Levels |-> clouds[i].size]

LastPublished == published[Len(published)]

\* C1: the points one update() moves into the clouds, all levels together,
\* are the full point set of one single pass: never points of two passes,
\* never only some levels of a pass.
C1_AtomicPublish ==
    [][update_drain =>
         \E k \in 1 .. Len(published) : CloudPoints(cloud_') = published[k].points]_vars

\* two different passes were published and an update() moved the second
\* one, with points on two levels, into the clouds
C1_Witness ==
    /\ Len(published) = 2
    /\ drained # <<>>
    /\ published[1].points # published[2].points
    /\ CloudPoints(cloud_) = published[2].points
    /\ cloud_[14].points # <<>>
    /\ cloud_[15].points # <<>>

\* C2: whenever update() drains a pass, every cloud gets the points of one
\* pass together with the edge lengths that same pass computed.
C2_BucketWithItsSize ==
    [][update_drain =>
         \E k \in 1 .. Len(published) :
             /\ CloudPoints(cloud_') = published[k].points
             /\ CloudSizes(cloud_') = published[k].size]_vars

\* C3: after reset() every pending bucket is empty and the dirty flag is
\* false.
C3_ResetClearsPending ==
    [][reset => (new_points_' = EmptyBuckets /\ ~new_points_received_')]_vars

\* C4: a message whose pass aborts (no transform, or no TextureOcTree)
\* leaves point_buf_, new_points_, box_size_, new_points_received_ and the
\* clouds as they were.
C4_AbortMutatesNothing ==
    [][(callback_pc = "idle" /\ delivered' = delivered + 1 /\ callback_pc' = "idle") =>
         UNCHANGED << point_buf_, new_points_, box_size_, new_points_received_, cloud_ >>]_vars

\* the second message aborted while the points of the first were pending
C4_Witness ==
    /\ status_ # "Ok"
    /\ callback_pc = "idle"
    /\ delivered = 2
    /\ Len(published) = 1
    /\ ~published[1].after_error
    /\ new_points_received_
    /\ new_points_ = published[1].points

\* C5: errors are not latched: whenever the callback is not running the
\* next message is taken, whatever was reported before, and the last pass
\* that published, also one after an error, is what is pending or, once
\* update() ran, what the clouds hold (until a reset clears them).
C5_ErrorsRecoverable ==
    /\ (callback_pc = "idle" /\ delivered < MaxMessages) =>
           \A msg \in Messages : ENABLED incomingMessageCallback(msg)
    /\ (Len(published) >= 1 /\ LastPublished.after_error) =>
           IF new_points_received_
           THEN new_points_ = LastPublished.points
           ELSE /\ drained # <<>>
                /\ drained[Len(drained)] = Len(published)
                /\ CloudPoints(cloud_) \in {LastPublished.points, EmptyBuckets}

\* a pass that followed an error was published and rendered
C5_Witness ==
    /\ Len(published) >= 1
    /\ LastPublished.after_error
    /\ status_ # "Ok"
    /\ drained # <<>>
    /\ CloudPoints(cloud_) = LastPublished.points

\* C6: an update() that finds the flag set leaves it clear, leaves every
\* new_points_[i] empty, and leaves in each cloud exactly the points of the
\* pass published last (replacing what the cloud held).
C6_DrainWhenDirty ==
    [][update_drain =>
         /\ ~new_points_received_'
         /\ new_points_' = EmptyBuckets
         /\ CloudPoints(cloud_') = LastPublished.points]_vars

\* two passes were drained one after the other; the clouds hold the second
C6_Witness ==
    /\ drained = <<1, 2>>
    /\ published[1].points # published[2].points
    /\ CloudPoints(cloud_) = published[2].points

\* the buffers an update() may touch
RenderData == << cloud_, new_points_, box_size_, new_points_received_ >>

\* C7: an update() that finds the flag clear returns without changing the
\* clouds, new_points_, box_size_ or the flag.
C7_NoDrainWhenClean ==
    [][/\ (update_pc = "idle" /\ update_pc' # "idle" /\ ~new_points_received_) =>
              (update_pc' = "return" /\ UNCHANGED RenderData)
       /\ (update_pc = "return" /\ update_pc' # "return") =>
              (update_pc' = "idle" /\ UNCHANGED RenderData)]_vars

\* update() found the flag clear while the clouds showed a pass
C7_Witness ==
    /\ update_pc = "return"
    /\ ~new_points_received_
    /\ cloud_[15].points # <<>>

\* two passes were published with no drain between them
TwoPublishesNoUpdate ==
    /\ Len(published) >= 2
    /\ \A j \in 1 .. Len(drained) : drained[j] # Len(published) - 1

\* C8: when two passes publish with no update() between them, new_points_
\* holds the points of the second pass only, and the update() that follows
\* renders only those.
C8_OnlyLastPassRetained ==
    TwoPublishesNoUpdate =>
        IF new_points_received_
        THEN new_points_ = LastPublished.points
        ELSE /\ drained # <<>>
             /\ drained[Len(drained)] = Len(published)
             /\ new_points_ = EmptyBuckets
             /\ CloudPoints(cloud_) \in {LastPublished.points, EmptyBuckets}

\* the second of two passes was drained, the first never
C8_Witness ==
    /\ TwoPublishesNoUpdate
    /\ drained = <<2>>
    /\ published[1].points # published[2].points
    /\ CloudPoints(cloud_) = published[2].points

\* the step that ends a pass
PassEnds == callback_pc = "publish" /\ callback_pc' = "idle"

\* C9: every pass that transforms and decodes, whatever the number of
\* points it emits, zero included, replaces new_points_ with its buckets
\* and sets the dirty flag.
C9_EveryPassPublishes ==
    [][PassEnds => (new_points_' = pass.points /\ new_points_received_')]_vars

\* the entries of bucket i that lie at the centre of voxel n
PointsAt(t, buf, i, n) ==
    {q \in 1 .. Len(buf[i]) :
        /\ buf[i][q].x = Coord2(t, n.k[1], n.d)
        /\ buf[i][q].y = Coord2(t, n.k[2], n.d)
        /\ buf[i][q].z = Coord2(t, n.k[3], n.d)}

\* C10: after the traversal every emitted voxel has a depth of 1 to 16, its
\* point lies once in bucket depth - 1, an index within 0 .. 15, and in no
\* other bucket, and the buckets hold nothing else.
C10_DepthPartition ==
    callback_pc = "publish" =>
        /\ \A j \in 1 .. Len(pass.voxels) :
              LET n == pass.voxels[j]
              IN  /\ n.d \in 1 .. max_octree_depth_
                  /\ BucketIndex(n.d) \in Levels
                  /\ \A i \in Levels :
                        Cardinality(PointsAt(Maps[octomap], point_buf_, i, n))
                            = IF i = n.d - 1 THEN 1 ELSE 0
        /\ SumSeq([i \in 1 .. max_octree_depth_ |-> Len(point_buf_[i - 1])]) = Len(pass.voxels)
        /\ pointCount = Len(pass.voxels)

\* a traversal put points into the buckets of two depths
C10_Witness ==
    /\ callback_pc = "publish"
    /\ point_buf_[14] # <<>>
    /\ point_buf_[15] # <<>>
    /\ pointCount = 2

\* ------------------------------------------- claims about one pass
\* These are stated on the state between the traversal and the publish
\* step, where the pass still holds its tree and the setting it read.

TraversalDone == callback_pc = "publish"

\* the nodes a traversal of each map visits under each depth property,
\* computed once
VisitedOf ==
    [i \in MapIds, d \in 0 .. (tree_depth + 1) |->
        LET ns == IteratorNodes(Maps[i], TraversalDepth(d))
        IN  {ns[j] : j \in 1 .. Len(ns)}]

\* the nodes the traversal visited
Visited == VisitedOf[octomap, pass.setting.depth]

IsEmitted(n) == \E j \in 1 .. Len(pass.voxels) : pass.voxels[j] = n

\* the render mode shows occupied voxels
ShowsOccupied(mask) == mask \in {OCTOMAP_OCCUPIED_VOXELS,
                                 OCTOMAP_FREE_VOXELS + OCTOMAP_OCCUPIED_VOXELS}

\* the occupancy state of node is one the render mode shows
InMask(node, mask) ==
    IF isNodeOccupied(node)
    THEN ShowsOccupied(mask)
    ELSE mask \in {OCTOMAP_FREE_VOXELS, OCTOMAP_FREE_VOXELS + OCTOMAP_OCCUPIED_VOXELS}

\* the 26 keys one key unit beside k
Beside(k) ==
    {<<k[1] + dx, k[2] + dy, k[3] + dz>> : dx \in -1 .. 1, dy \in -1 .. 1, dz \in -1 .. 1}
        \ {k}

\* the tree has no node at key, or one whose state the mode does not show
Gap(t, key, mask) ==
    \/ search(t, key) = {}
    \/ \E node \in search(t, key) : ~InMask(node, mask)

\* an occupied voxel the traversal visited at its maximum depth, under a
\* render mode that shows occupied voxels
AtMaxDepth(n) ==
    /\ ShowsOccupied(pass.setting.render)
    /\ n.d = TraversalDepth(pass.setting.depth)
    /\ isNodeOccupied(n)
    /\ n \in Visited

\* no component of k is at the end of the key range
InnerKey(k) == \A a \in 1 .. 3 : k[a] \in 1 .. (2 * tree_max_val - 2)

SameDepthBeside(n) ==
    {<<n.k[1] + dx * CellKeys(n.d), n.k[2] + dy * CellKeys(n.d), n.k[3] + dz * CellKeys(n.d)>> :
        dx \in -1 .. 1, dy \in -1 .. 1, dz \in -1 .. 1} \ {n.k}

\* C12: an occupied voxel the traversal visits under a render mode that
\* shows occupied voxels, with no node of the tree at one or more of its 26
\* neighbour positions, is emitted.
C12_GapForcesVisible ==
    TraversalDone =>
        \A n \in Visited :
            (/\ isNodeOccupied(n)
             /\ ShowsOccupied(pass.setting.render)
             /\ \E key \in SameDepthBeside(n) : search(Maps[octomap], key) = {})
                => IsEmitted(n)

\* an occupied voxel the traversal visited above its maximum depth, each of
\* the 26 cells of its depth around it in a node whose state the render
\* mode shows
Enclosed(n) ==
    /\ n.d # TraversalDepth(pass.setting.depth)
    /\ isNodeOccupied(n)
    /\ n \in Visited
    /\ \A key \in SameDepthBeside(n) : ~Gap(Maps[octomap], key, pass.setting.render)

AfterFirstPass ==
    /\ callback_pc = "idle"
    /\ delivered = 1
    /\ status_ = "Ok"
    /\ drained = <<>>

\* one point, green, in cloud 9, with the edge length of depth 10, and no
\* point in any other cloud
ScenarioOutput(clouds) ==
    /\ Len(clouds[9].points) = 1
    /\ clouds[9].points[1].r = 0
    /\ clouds[9].points[1].g = 1000
    /\ clouds[9].points[1].b = 0
    /\ clouds[9].size = getNodeSize(OneLeaf10, 10)
    /\ \A i \in Levels \ {9} : clouds[i].points = <<>>

\* C14: for a tree whose only leaf is an occupied leaf of depth 10 with
\* probability 1.0, processed with probability colours and the render mode
\* of occupied voxels, the update() that follows the pass finds new points
\* and leaves exactly one point in the clouds: in cloud 9, of colour
\* (0, 1, 0), cloud 9 having the edge length of depth 10.
C14_EndToEndScenario ==
    [][/\ (AfterFirstPass /\ update_pc = "idle" /\ update_pc' # "idle") => update_pc' = "lock"
       /\ (AfterFirstPass /\ update_drain) => ScenarioOutput(cloud_')]_vars

\* --------------------------------------------- reset and onDisable

\* a reset() in this state changes nothing
ResetChangesNothing == clear(cloud_) = cloud_ /\ messages_received_ = 0

\* no point in any cloud, none pending, and the dirty flag clear
AllBucketsEmpty ==
    /\ CloudPoints(cloud_) = EmptyBuckets
    /\ new_points_ = EmptyBuckets
    /\ ~new_points_received_

\* the first half of C15: a second reset() right after a reset() changes
\* nothing
ResetIdempotent == [][reset => ResetChangesNothing']_vars

\* C15: a second reset() right after a reset() leaves the state of the
\* first, and in that state all buckets are empty: the clouds, the pending
\* new_points_ and the dirty flag.
C15_ResetIdempotence ==
    [][reset => (ResetChangesNothing' /\ AllBucketsEmpty')]_vars

\* ------------------------------------------------ the depth property

\* C16: for every value of the depth property, 0 and values above the
\* tree's depth included, the pass goes through without an error and no
\* emitted point comes from a voxel deeper than min(property, tree depth).
C16_TraversalDepthClamp ==
    TraversalDone =>
        /\ pass.after_error \/ status_ = "Ok"
        /\ \A j \in 1 .. Len(pass.voxels) :
              pass.voxels[j].d <= Min(pass.setting.depth, tree_depth)

\* C17: the points of a pass during which onDisable() ran, published after
\* it, are never added to the clouds by a later update(), also not by one
\* after the display was enabled again.
C17_PublishAfterDisableIgnored ==
    [][update_drain =>
         \A k \in 1 .. Len(published) :
             published[k].disabled => CloudPoints(cloud_') # published[k].points]_vars

\* ------------------------------------------- the neighbour lookup

\* C18: for a voxel visited at a depth d above the tree's depth, every key
\* the neighbour test searches lies in one of the 26 cells of depth d
\* around the voxel's cell, and none in the voxel's own cell.
C18_SameDepthLookup ==
    TraversalDone =>
        \A n \in Visited :
            (isNodeOccupied(n) /\ ShowsOccupied(pass.setting.render) /\ n.d < tree_depth) =>
                \A key \in NeighborKeys(n.k) : NodeKeyAt(key, n.d) \in SameDepthBeside(n)

\* ------------------------------------------------ the render mode

SubscriptionStep ==
    \/ enabled' # enabled
    \/ topic' # topic
    \/ enabled /\ queue_size_' # queue_size_
    \/ sub_' # sub_
    \/ subscribers' # subscribers

\* C20: a subscription exists only while the display is enabled and its
\* topic is not empty, and then it is one subscription, to that topic;
\* every step that subscribes or unsubscribes leaves all clouds empty.
C20_SubscriptionLifecycle ==
    /\ [](sub_ # NoSub => (enabled /\ topic # "" /\ sub_.topic = topic))
    /\ [](subscribers = IF sub_ # NoSub THEN 1 ELSE 0)
    /\ [][SubscriptionStep => CloudPoints(cloud_') = EmptyBuckets]_vars

\* the clouds showed a pass and were cleared by subscribing again (by no
\* reset: the message is still counted); the display is subscribed with
\* the queue size that was set
C20_Witness ==
    /\ sub_ = Subscriber("octomap", 1)
    /\ enabled
    /\ subscribers = 1
    /\ messages_received_ = 1
    /\ drained # <<>>
    /\ CloudPoints(cloud_) = EmptyBuckets

====
